---- MODULE Spec2Model ----
(***************************************************************************)
(* Model of the content pipeline of the YouTube content agent:             *)
(*   orchestrator.py   YouTubeContentOrchestrator (validation gate, the    *)
(*                     single-script and the variation pipeline)           *)
(*   agents/*.py       the collaborators the pipeline calls, with the      *)
(*                     try/except blocks they wrap their remote calls in   *)
(*   utils/cost_tracker.py   the cost ledger                               *)
(* Remote services (video search, web search, text generation) answer      *)
(* nondeterministically; every answer is drawn from a small set.           *)
(* Money is counted in micro-dollars, texts are small records.             *)
(***************************************************************************)
EXTENDS Integers, Sequences, FiniteSets, TLC

VARIABLES
    pc,       \* the position of the run in the pipeline
    mode,     \* "single" or "variations": which entry point is running
    args,     \* the arguments of the run
    package,  \* the package being built, a dict: key -> value
    locals,   \* the local variables holding the outputs of the steps
    calls,    \* the collaborator calls of the run, in order, with arguments
    remote,   \* the number of remote calls of the run, per service
    ledger,   \* the cost tracker of the orchestrator
    runs,     \* the number of runs that have returned
    failure,  \* the exception raised in the run, if any
    ledger0,  \* the cost tracker as it was when the run was called
    tracker,  \* a CostTracker driven directly: sessions, calls, outcomes
    retry,    \* a call of a function wrapped by retry_on_error
    safe,     \* a call of safe_execute
    scorer,   \* the last call of TopicScorer.score_topic: inputs and outcome
    ctor      \* the call of YouTubeContentOrchestrator.__init__

\* the orchestrator and one run of its pipeline
pipelineVars == <<pc, mode, args, package, locals, calls, remote, ledger, runs,
                  failure, ledger0, ctor>>

\* the components that are also driven on their own
unitVars == <<tracker, retry, safe, scorer>>

vars == <<pc, mode, args, package, locals, calls, remote, ledger, runs, failure,
          ledger0, tracker, retry, safe, scorer, ctor>>

(***************************************************************************)
(* Bounds of the model                                                     *)
(***************************************************************************)
\* number of pipeline runs that share one orchestrator
MaxRuns == 1

(***************************************************************************)
(* Strings                                                                 *)
(***************************************************************************)
\* a topic is a sequence of characters
Rep(c, n) == [i \in 1..n |-> c]

Whitespace == {" ", "\t"}

\* str.strip(): the text from the first to the last character that is not
\* whitespace
strip(s) ==
    LET solid == {i \in 1..Len(s) : s[i] \notin Whitespace} IN
    IF solid = {} THEN <<>>
    ELSE SubSeq(s, CHOOSE i \in solid : \A j \in solid : i <= j,
                   CHOOSE i \in solid : \A j \in solid : i >= j)

(***************************************************************************)
(* orchestrator.py: validate_input                                         *)
(***************************************************************************)
MinTopicLen == 3
MaxTopicLen == 200

valid_lengths == <<"5-8 minutes", "8-10 minutes", "10-12 minutes",
                   "12-15 minutes", "15-20 minutes", "20+ minutes">>

InvalidLengthMsg == "Invalid length. Choose from: 5-8 minutes, 8-10 minutes, 10-12 minutes, 12-15 minutes, 15-20 minutes, 20+ minutes"

\* a length test that is off by one at both ends
TopicLenBad_OffByOne(topic) ==
    IF Len(topic) <= MinTopicLen THEN "Topic too short (minimum 3 characters)"
    ELSE IF Len(topic) >= MaxTopicLen THEN "Topic too long (maximum 200 characters)"
    ELSE "ok"

\* the length test of lines 88-92, on the topic as supplied
TopicLenBad(topic) ==
    IF Len(topic) < MinTopicLen THEN "Topic too short (minimum 3 characters)"
    ELSE IF Len(topic) > MaxTopicLen THEN "Topic too long (maximum 200 characters)"
    ELSE "ok"

\* returns the tuple (is_valid, error_message)
validate_input(topic, video_length) ==
    IF Len(topic) = 0 \/ Len(strip(topic)) = 0
    THEN [is_valid |-> FALSE, error_msg |-> "Topic cannot be empty"]
    ELSE IF TopicLenBad(topic) # "ok"
    THEN [is_valid |-> FALSE, error_msg |-> TopicLenBad(topic)]
    ELSE IF \A i \in 1..Len(valid_lengths) : valid_lengths[i] # video_length
    THEN [is_valid |-> FALSE, error_msg |-> InvalidLengthMsg]
    ELSE [is_valid |-> TRUE, error_msg |-> "None"]

(***************************************************************************)
(* Answers of the remote services                                          *)
(***************************************************************************)
\* a video is its statistics: views and likes
Video(v, l) == [views |-> v, likes |-> l]

\* the video API answers with a list of videos or fails
VideoResponses ==
    { [ok |-> FALSE, items |-> <<>>],
      [ok |-> TRUE,  items |-> <<>>],
      [ok |-> TRUE,  items |-> <<Video(3000000, 30000), Video(12000000, 600000), Video(0, 0)>>] }

\* the number of results the web search is asked for
WebMaxResults == 5

\* the web search fails, answers with a result list, or answers with a
\* payload whose result list is null; a result is "ok" when it carries a
\* text content and "bad" when its content is null
WebResponses ==
    { [kind |-> "error", items |-> <<>>],
      [kind |-> "null",  items |-> <<>>],
      [kind |-> "list",  items |-> Rep("ok", WebMaxResults)],
      [kind |-> "list",  items |-> <<"ok", "bad">>] }

\* the text generation answers with a text or raises
LLMTexts == {"generated text"}

LLMError == "Connection error."

LLMResponses == [ok : {TRUE}, content : LLMTexts] \cup
                { [ok |-> FALSE, content |-> LLMError] }

(***************************************************************************)
(* Arithmetic helpers                                                      *)
(***************************************************************************)
RECURSIVE GCD(_, _)
GCD(a, b) == IF b = 0 THEN a ELSE GCD(b, a % b)

\* a fraction num/den in lowest terms, den > 0
Frac(n, d) == LET g == GCD(n, d) IN
              IF g = 0 THEN [num |-> 0, den |-> 1]
              ELSE [num |-> n \div g, den |-> d \div g]

FracAdd(x, y) == Frac(x.num * y.den + y.num * x.den, x.den * y.den)

\* x > t/2, for a fraction x
FracGtHalves(x, t) == 2 * x.num > t * x.den

RECURSIVE SumViews(_)
SumViews(vs) == IF vs = <<>> THEN 0 ELSE Head(vs).views + SumViews(Tail(vs))

RECURSIVE MaxViews(_)
MaxViews(vs) == IF Len(vs) = 1 THEN vs[1].views
                ELSE LET m == MaxViews(Tail(vs)) IN
                     IF Head(vs).views > m THEN Head(vs).views ELSE m

\* an engagement that is computed for every video, viewed or not
\* likes / max(views, 1): an unviewed video counts its likes
video_engagement_ClampedViews(v) ==
    Frac(v.likes * 100, IF v.views > 0 THEN v.views ELSE 1)

\* line 37: (likes / views * 100) if views > 0 else 0
video_engagement(v) ==
    IF v.views > 0 THEN Frac(v.likes * 100, v.views) ELSE Frac(0, 1)

\* the engagements summed over the videos
RECURSIVE SumEngagement(_)
SumEngagement(vs) ==
    IF vs = <<>> THEN Frac(0, 1)
    ELSE FracAdd(video_engagement(Head(vs)), SumEngagement(Tail(vs)))

\* round(n/d) to the nearest integer, ties to even (format ",.0f")
RoundHalfEven(n, d) ==
    LET q == n \div d
        r == n % d
    IN IF 2 * r > d THEN q + 1
       ELSE IF 2 * r < d THEN q
       ELSE IF q % 2 = 0 THEN q ELSE q + 1

(***************************************************************************)
(* agents/youtube_analyzer.py                                              *)
(***************************************************************************)
\* search_videos: any failure of the API is caught and gives the empty list
search_videos(resp) == IF resp.ok THEN resp.items ELSE <<>>

\* videos.sort(key=views, reverse=True): stable insertion into a
\* descending list
RECURSIVE InsertDesc(_, _)
InsertDesc(v, sorted) ==
    IF sorted = <<>> THEN <<v>>
    ELSE IF v.views > Head(sorted).views THEN <<v>> \o sorted
    ELSE <<Head(sorted)>> \o InsertDesc(v, Tail(sorted))

RECURSIVE SortDesc(_)
SortDesc(vs) == IF vs = <<>> THEN <<>>
                ELSE InsertDesc(vs[Len(vs)], SortDesc(SubSeq(vs, 1, Len(vs) - 1)))

TopN == 5

NoVideosText == [kind |-> "No videos found for this query."]

\* analyze_top_videos: the text of the competition analysis
analyze_top_videos(query, resp) ==
    LET videos == search_videos(resp) IN
    IF videos = <<>> THEN NoVideosText
    ELSE LET sorted == SortDesc(videos)
             top_videos == SubSeq(sorted, 1, IF Len(sorted) < TopN THEN Len(sorted) ELSE TopN)
             total_views == SumViews(top_videos)
         IN [kind |-> "TOP VIDEOS ANALYSIS",
             videos |-> top_videos,
             total_views |-> total_views,
             avg_views |-> total_views \div Len(top_videos)]

(***************************************************************************)
(* agents/research_agent.py                                                *)
(***************************************************************************)
\* search_web: response.get('results', []); a failure of the search is
\* caught and gives the empty list.  isNone: the payload held results: null
search_web(resp) ==
    IF resp.kind = "error" THEN [isNone |-> FALSE, items |-> <<>>]
    ELSE IF resp.kind = "null" THEN [isNone |-> TRUE, items |-> <<>>]
    ELSE [isNone |-> FALSE, items |-> resp.items]

NotIterableMsg == "'NoneType' object is not iterable"
NotSubscriptableMsg == "'NoneType' object is not subscriptable"
NoLenMsg == "object of type 'NoneType' has no len()"

SummaryMax == 10

NoResultsText == [kind |-> "No search results found. Please check your Tavily API key."]

\* the outcome of a call: it returns val, or raises with message msg;
\* web and llm count the remote calls it made, llm_failed tells whether a
\* text generation it made raised
Returned(val, nweb, nllm, failed) ==
    [raised |-> FALSE, msg |-> "", val |-> val, web |-> nweb, llm |-> nllm,
     llm_failed |-> failed]

Raises(msg, nweb, nllm) ==
    [raised |-> TRUE, msg |-> msg, val |-> [kind |-> "none"], web |-> nweb,
     llm |-> nllm, llm_failed |-> FALSE]

\* research_topic: three web searches, the findings compiled, one text
\* generation whose failure is caught and reported inside the text
research_topic(topic, w1, w2, w3, llm) ==
    LET r1 == search_web(w1)
        r2 == search_web(w2)
        r3 == search_web(w3)
    IN IF r1.isNone THEN Raises(NotIterableMsg, 1, 0)
       ELSE IF r2.isNone THEN Raises(NotIterableMsg, 2, 0)
       ELSE IF r3.isNone THEN Raises(NotIterableMsg, 3, 0)
       ELSE LET all_results == r1.items \o r2.items \o r3.items
                shown == SubSeq(all_results, 1,
                           IF Len(all_results) < SummaryMax THEN Len(all_results) ELSE SummaryMax)
            IN IF all_results = <<>> THEN Returned(NoResultsText, 3, 0, FALSE)
               ELSE IF \E i \in 1..Len(shown) : shown[i] = "bad"
                    THEN Raises(NotSubscriptableMsg, 3, 0)
               ELSE IF llm.ok
                    THEN Returned([kind |-> "research", content |-> llm.content], 3, 1, FALSE)
               ELSE Returned([kind |-> "Analysis failed", error |-> llm.content,
                              findings |-> Len(shown)], 3, 1, TRUE)

GapFailedText == [kind |-> "Gap analysis failed. Using basic research data."]

\* analyze_content_gaps: researches the topic again, then one text
\* generation over youtube_data and that research; prompt records what the
\* generation was given
analyze_content_gaps(topic, youtube_data, w1, w2, w3, llmResearch, llmGap) ==
    LET research == research_topic(topic, w1, w2, w3, llmResearch) IN
    IF research.raised THEN research @@ [prompt |-> [kind |-> "none"]]
    ELSE (IF llmGap.ok
          THEN Returned([kind |-> "gaps", content |-> llmGap.content],
                        research.web, research.llm + 1, research.llm_failed)
          ELSE Returned(GapFailedText, research.web, research.llm + 1, TRUE))
         @@ [prompt |-> [youtube_data |-> youtube_data, research |-> research.val]]

(***************************************************************************)
(* agents/topic_scorer.py                                                  *)
(***************************************************************************)
\* a demand score whose thresholds are inclusive
demand_score_Inclusive(sum_views, n) ==
    IF sum_views >= 5000000 * n THEN 100
    ELSE IF sum_views >= 1000000 * n THEN 80
    ELSE IF sum_views >= 500000 * n THEN 60
    ELSE IF sum_views >= 100000 * n THEN 40
    ELSE 20

\* avg_views = sum / n is compared without dividing: avg > t  <=>  sum > t*n
demand_score(sum_views, n) ==
    IF sum_views > 5000000 * n THEN 100
    ELSE IF sum_views > 1000000 * n THEN 80
    ELSE IF sum_views > 500000 * n THEN 60
    ELSE IF sum_views > 100000 * n THEN 40
    ELSE 20

\* a competition score whose thresholds are inclusive
competition_score_Inclusive(top_video_views) ==
    IF top_video_views >= 10000000 THEN 20
    ELSE IF top_video_views >= 5000000 THEN 40
    ELSE IF top_video_views >= 1000000 THEN 60
    ELSE IF top_video_views >= 500000 THEN 80
    ELSE 100

competition_score(top_video_views) ==
    IF top_video_views > 10000000 THEN 20
    ELSE IF top_video_views > 5000000 THEN 40
    ELSE IF top_video_views > 1000000 THEN 60
    ELSE IF top_video_views > 500000 THEN 80
    ELSE 100

\* avg_engagement = sum_eng / n against 3, 2, 1.5 and 1 (in halves: 6, 4, 3, 2)
engagement_score(sum_eng, n) ==
    IF FracGtHalves(sum_eng, 6 * n) THEN 100
    ELSE IF FracGtHalves(sum_eng, 4 * n) THEN 80
    ELSE IF FracGtHalves(sum_eng, 3 * n) THEN 60
    ELSE IF FracGtHalves(sum_eng, 2 * n) THEN 40
    ELSE 20

\* a trend score that reaches 100
trend_score_Full(result_count) ==
    IF result_count >= 5 THEN 100
    ELSE IF result_count >= 3 THEN 60
    ELSE 40

trend_score(result_count) ==
    IF result_count >= 5 THEN 80
    ELSE IF result_count >= 3 THEN 60
    ELSE 40

\* a total that weighs the four sub-scores equally
total_score_tenths_EqualWeights(d, c, e, t) == (d * 25 + c * 25 + e * 25 + t * 25) \div 10

\* the weighted total, in tenths: every sub-score is a multiple of 20, so
\* the sum below is exact
total_score_tenths(d, c, e, t) == (d * 30 + c * 25 + e * 25 + t * 20) \div 10

recommendation(total_tenths) ==
    IF total_tenths >= 750 THEN "STRONG OPPORTUNITY - Create content ASAP!"
    ELSE IF total_tenths >= 600 THEN "GOOD OPPORTUNITY - Worth considering"
    ELSE IF total_tenths >= 450 THEN "MODERATE - Needs unique angle"
    ELSE "CHALLENGING - High competition or low demand"

confidence(total_tenths) ==
    IF total_tenths >= 750 THEN "High"
    ELSE IF total_tenths >= 600 THEN "Medium-High"
    ELSE IF total_tenths >= 450 THEN "Medium"
    ELSE "Low"

\* a result for no videos that carries no error
NoDataScore_NoError(topic) == [topic |-> topic, total_score |-> 0]

\* lines 27-32: the result when the search found no videos
NoDataScore(topic) ==
    [topic |-> topic, error |-> "No YouTube data found", total_score |-> 0]

\* score_topic: total_score is kept in tenths (round(total, 1))
score_topic(topic, vresp, wresp) ==
    LET videos == search_videos(vresp) IN
    IF videos = <<>> THEN Returned(NoDataScore(topic), 0, 0, FALSE)
    ELSE
      LET n == Len(videos)
          sum_views == SumViews(videos)
          top_video_views == MaxViews(videos)
          sum_eng == SumEngagement(videos)
          d == demand_score(sum_views, n)
          c == competition_score(top_video_views)
          e == engagement_score(sum_eng, n)
          search_results == search_web(wresp)
      IN IF search_results.isNone THEN Raises(NoLenMsg, 1, 0)
         ELSE LET t == trend_score(Len(search_results.items))
                  total == total_score_tenths(d, c, e, t)
              IN Returned(
                   [topic |-> topic,
                    total_score |-> total,
                    recommendation |-> recommendation(total),
                    confidence |-> confidence(total),
                    breakdown |-> [demand_score |-> d, competition_score |-> c,
                                   engagement_score |-> e, trend_score |-> t],
                    metrics |-> [avg_views |-> RoundHalfEven(sum_views, n),
                                 top_video_views |-> top_video_views,
                                 avg_engagement |-> RoundHalfEven(sum_eng.num * 100, sum_eng.den * n),
                                 videos_analyzed |-> n]],
                   1, 0, FALSE)

(***************************************************************************)
(* agents/script_writer.py                                                 *)
(***************************************************************************)
\* write_script: one text generation; its failure is caught and returned
\* as the text of the script
write_script(topic, youtube_analysis, research_data, gap_analysis, video_length, tone, llm) ==
    IF llm.ok
    THEN [kind |-> "YOUTUBE VIDEO SCRIPT",
          video_length |-> video_length, tone |-> tone, content |-> llm.content]
    ELSE [kind |-> "Script generation failed", error |-> llm.content]

\* the tones of write_multiple_variations, in the order of the dict
tones == <<"educational", "entertaining", "professional">>

ComparisonUnavailable == [kind |-> "Comparison analysis unavailable."]

_compare_script_variations(scripts, topic, llm) ==
    IF llm.ok THEN [kind |-> "SCRIPT VARIATION COMPARISON ANALYSIS", content |-> llm.content]
    ELSE ComparisonUnavailable

\* write_multiple_variations: one write_script per tone, then the comparison
write_multiple_variations(topic, youtube_analysis, research_data, gap_analysis,
                          video_length, llms, llmCompare) ==
    LET scripts == [t \in {tones[i] : i \in 1..Len(tones)} |->
                      LET i == CHOOSE j \in 1..Len(tones) : tones[j] = t IN
                      write_script(topic, youtube_analysis, research_data,
                                   gap_analysis, video_length, t, llms[i])]
    IN scripts @@ [c \in {"comparison"} |->
                      _compare_script_variations(scripts, topic, llmCompare)]

(***************************************************************************)
(* agents/seo_agent.py                                                     *)
(***************************************************************************)
\* optimize_metadata: one text generation; its failure is caught and
\* returned as the text of the metadata
optimize_metadata(topic, script, youtube_analysis, research_data, llm) ==
    IF llm.ok THEN [kind |-> "SEO-OPTIMIZED METADATA", content |-> llm.content]
    ELSE [kind |-> "SEO generation failed", error |-> llm.content]

(***************************************************************************)
(* utils/cost_tracker.py                                                   *)
(***************************************************************************)
\* PRICING, in micro-dollars per token
DefaultModel == "gpt-4-turbo-preview"
PriceInput == 10
PriceOutput == 30

\* the keys of PRICING whose value is a dict of per-token prices
PricedModels == {DefaultModel}

\* the keys of PRICING whose value is the bare number 0.0
FlatModels == {"youtube_api", "tavily"}

\* PRICING[model]['input'] on a bare number
FloatNotSubscriptableMsg == "'float' object is not subscriptable"

\* one cent and the unit of round(cost, 4), in micro-dollars
Cent == 10000
TenThousandth == 100

\* round(x, ndigits) of a float x that stands for n micro-dollars, to
\* multiples of unit.  The float is not n exactly: when n lies halfway
\* between two multiples the result follows the binary value, which lies
\* above (tie_up) or below the decimal tie
round(n, unit, tie_up) ==
    LET q == n \div unit
        r == n % unit
    IN IF 2 * r > unit THEN (q + 1) * unit
       ELSE IF 2 * r < unit THEN q * unit
       ELSE IF tie_up THEN (q + 1) * unit ELSE q * unit

\* a live session: current_session without its start time
NewSession == [operations |-> <<>>, total_cost |-> 0]

\* log_operation: the outcome of the call on the session l.  A model of
\* the price table is priced through PRICING[model]['input'], which raises
\* when the entry is a bare number; any other model costs 0.0.  The entry
\* keeps round(cost, 4), the total adds the unrounded cost, the call
\* returns the unrounded cost.  (No operation of the model has a cost
\* halfway between two ten-thousandths of a dollar.)
log_operation(l, operation_type, tokens_input, tokens_output, model) ==
    IF model \in FlatModels
    THEN [raised |-> TRUE, msg |-> FloatNotSubscriptableMsg, cost |-> 0, session |-> l]
    ELSE LET cost == IF model \in PricedModels
                     THEN tokens_input * PriceInput + tokens_output * PriceOutput
                     ELSE 0
         IN [raised |-> FALSE, msg |-> "", cost |-> cost,
             session |->
               [operations |-> Append(l.operations,
                                 [type |-> operation_type, model |-> model,
                                  tokens_input |-> tokens_input,
                                  tokens_output |-> tokens_output,
                                  cost |-> round(cost, TenThousandth, FALSE)]),
                total_cost |-> l.total_cost + cost]]

\* a tracker that swaps the two token counts of an operation
Log_SwapsTokens(l, operation_type, tokens_input, tokens_output) ==
    IF l.enabled
    THEN log_operation(l, operation_type, tokens_output, tokens_input, DefaultModel).session
            @@ [enabled |-> TRUE]
    ELSE l

\* the orchestrator logs only when a tracker was constructed, and always
\* on the default model
Log(l, operation_type, tokens_input, tokens_output) ==
    IF l.enabled
    THEN log_operation(l, operation_type, tokens_input, tokens_output, DefaultModel).session
            @@ [enabled |-> TRUE]
    ELSE l

\* estimate_cost: the table of estimates, in micro-dollars
estimates ==
    [research |-> 150000, script |-> 200000, seo |-> 100000,
     gap_analysis |-> 150000, comparison |-> 100000, complete_package |-> 700000]

DefaultEstimate == 100000

estimate_cost(operation_type) ==
    IF operation_type \in DOMAIN estimates THEN estimates[operation_type]
    ELSE DefaultEstimate

\* get_session_cost: round(total_cost, 2)
get_session_cost(l, tie_up) == round(l.total_cost, Cent, tie_up)

\* a session of the history: one loaded from the log file, or the live
\* session itself (save_session appends the dict, not a copy of it)
LoadedSession(total) == [live |-> FALSE, total_cost |-> total]
LiveSession == [live |-> TRUE, total_cost |-> 0]

\* session['total_cost'] for a session of the history of tracker t
SessionTotal(t, session) ==
    IF session.live THEN t.current_session.total_cost ELSE session.total_cost

\* save_session: the live session is appended to the history and the
\* history is written to the log file
save_session(t) == [t EXCEPT !.history = Append(t.history, LiveSession)]

RECURSIVE SumTotals(_, _)
SumTotals(t, sessions) ==
    IF sessions = <<>> THEN 0
    ELSE SessionTotal(t, Head(sessions)) + SumTotals(t, Tail(sessions))

\* get_total_project_cost: the totals of the sessions of the history, plus
\* the total of the live session, rounded to cents
get_total_project_cost(t, tie_up) ==
    round(SumTotals(t, t.history) + t.current_session.total_cost, Cent, tie_up)

\* no query has been answered since the tracker last changed
NoOut == [op |-> "none", arg |-> "", value |-> 0]

\* a tracker constructed with no log file: the live session, the history,
\* and what its caller has seen: the sessions that were loaded at
\* construction, the log_operation calls with their outcomes, the answer
\* of the last query
NoTracker ==
    [current_session |-> NewSession, history |-> <<>>, loaded |-> <<>>,
     calls |-> <<>>, out |-> NoOut]

(***************************************************************************)
(* utils/error_handler.py                                                  *)
(***************************************************************************)
\* the exception the wrapped function raises at its k-th invocation
OpError(k) == [type |-> "Exception", invocation |-> k]

\* last_exception = None
NoException == [type |-> "None", invocation |-> 0]

\* raise None: "exceptions must derive from BaseException"
RaiseNoneError == [type |-> "TypeError", invocation |-> 0]

\* the value the wrapped function returns
OpResult == "Success!"

\* invocation: the invocation of the function whose result the call
\* returned (0 when it returned none)
NoOutcome == [kind |-> "none", exception |-> NoException, value |-> "", invocation |-> 0]

\* no wrapped function is being called.  trace: the invocations of the
\* function and the sleeps of the wrapper, in order
NoRetry ==
    [pc |-> "idle", max_retries |-> 0, delay |-> 0, attempt |-> 0,
     last_exception |-> NoException, trace |-> <<>>, outcome |-> NoOutcome]

\* a wrapper that sleeps after every failed attempt
SleepsAfter_EveryFailure(attempt, max_retries) == attempt < max_retries

\* line 22: a failed attempt is followed by a sleep unless it was the last
SleepsAfter(attempt, max_retries) == attempt < max_retries - 1

\* a wrapper whose delay grows with the attempts
sleep_seconds_Growing(delay, attempt) == delay * (attempt + 1)

\* line 25: time.sleep(delay), the same delay after every failed attempt
sleep_seconds(delay, attempt) == delay

\* one pass of the loop of lines 16-27: the function is invoked and
\* returns (ok) or raises
attempt_once(w, ok) ==
    LET invoked == Append(w.trace, [ev |-> "invoke", seconds |-> 0]) IN
    IF ok
    THEN [w EXCEPT !.pc = "returned", !.trace = invoked,
                   !.outcome = [kind |-> "returned", exception |-> NoException,
                                value |-> OpResult, invocation |-> w.attempt + 1]]
    ELSE [w EXCEPT !.attempt = @ + 1,
                   !.last_exception = OpError(w.attempt + 1),
                   !.trace = IF SleepsAfter(w.attempt, w.max_retries)
                             THEN Append(invoked, [ev |-> "sleep",
                                                   seconds |-> sleep_seconds(w.delay, w.attempt)])
                             ELSE invoked]

\* a wrapper that returns None when no attempt was made
raise_last_ReturnsNone(w) ==
    IF w.last_exception = NoException
    THEN [w EXCEPT !.pc = "returned",
                   !.outcome = [kind |-> "returned", exception |-> NoException,
                                value |-> "None", invocation |-> 0]]
    ELSE [w EXCEPT !.pc = "raised",
                   !.outcome = [kind |-> "raised", exception |-> w.last_exception,
                                value |-> "", invocation |-> 0]]

\* line 29: raise last_exception, after the loop
raise_last(w) ==
    [w EXCEPT !.pc = "raised",
              !.outcome = [kind |-> "raised",
                           exception |-> IF w.last_exception = NoException
                                         THEN RaiseNoneError ELSE w.last_exception,
                           value |-> "", invocation |-> 0]]

\* what a function passed to safe_execute does when it is called
Funcs == { [raised |-> FALSE, value |-> "result"],
           [raised |-> FALSE, value |-> "None"],
           [raised |-> TRUE,  value |-> "boom"] }

\* a safe_execute that lets the exception through
safe_execute_Propagates(func, default_return) ==
    [raised |-> func.raised, value |-> func.value, invocations |-> 1]

\* safe_execute: lines 46-51; the outcome of the call, with the number of
\* times func was called
safe_execute(func, default_return) ==
    IF func.raised
    THEN [raised |-> FALSE, value |-> default_return, invocations |-> 1]
    ELSE [raised |-> FALSE, value |-> func.value, invocations |-> 1]

NoSafe ==
    [pc |-> "idle", func |-> [raised |-> FALSE, value |-> ""], default_return |-> "",
     outcome |-> [raised |-> FALSE, value |-> "", invocations |-> 0]]

(***************************************************************************)
(* orchestrator.py: __init__                                               *)
(***************************************************************************)
\* the collaborators in the order __init__ constructs them: lines 46-59
ConstructionOrder ==
    <<"YouTubeAnalyzer", "ResearchAgent", "TopicScorer", "ScriptWriter", "SEOAgent">>

MissingKeyMsg == "YOUTUBE_API_KEY not found in environment"

\* what constructing a collaborator can come to: "ok" or the message of
\* the exception.  YouTubeAnalyzer raises ValueError without its key and
\* otherwise builds its client; the clients of the libraries (build,
\* ChatOpenAI, TavilyClient) construct or raise; TopicScorer constructs a
\* YouTubeAnalyzer and then a ResearchAgent of its own
Outcomes(name, youtube_key) ==
    LET youtube == IF youtube_key THEN {"ok", "build failed"} ELSE {MissingKeyMsg}
        research == {"ok", "ChatOpenAI failed", "TavilyClient failed"}
    IN CASE name = "YouTubeAnalyzer" -> youtube
         [] name = "ResearchAgent" -> research
         [] name = "TopicScorer" ->
                (youtube \ {"ok"}) \cup (IF "ok" \in youtube THEN research ELSE {})
         [] name = "ScriptWriter" -> {"ok", "ChatOpenAI failed"}
         [] name = "SEOAgent" -> {"ok", "ChatOpenAI failed"}

\* an orchestrator whose __init__ returned: the instance exists
Constructed(track_costs) ==
    [pc |-> "done", track_costs |-> track_costs, youtube_key |-> TRUE,
     log_file |-> "absent", tracker |-> track_costs,
     constructed |-> ConstructionOrder, error |-> "", instance |-> TRUE]

\* an except block that reports the error and goes on
on_init_error_Swallows(c) == [c EXCEPT !.pc = "done", !.instance = TRUE]

\* lines 69-71: except Exception as e: print; raise
on_init_error(c) == [c EXCEPT !.pc = "raised"]

(***************************************************************************)
(* orchestrator.py: the pipeline                                           *)
(***************************************************************************)
\* the topics a caller supplies: empty, whitespace only, too short, of
\* the minimum length (padded with whitespace), of the maximum length, too long
Topics ==
    { <<>>, Rep(" ", 4), <<"a", "b">>, <<" ", "a", "\t">>,
      Rep("a", MaxTopicLen), Rep("a", MaxTopicLen + 1) }

\* the topics the variation pipeline is called with
VariationTopics == { <<"a", "b">>, Rep("a", MaxTopicLen) }

\* the video lengths a caller supplies: listed ones and one that is not
VideoLengths == {"10-12 minutes", "30 minutes"}

\* the topics around the limits of validate_input
ValidationTopics ==
    Topics \cup
    { <<" ">>, <<"\t", " ">>, <<"a">>, <<"a", "b", "c">>, <<"a", " ", "b">>,
      <<" ", " ", "a">>, Rep("a", MaxTopicLen - 1),
      <<" ">> \o Rep("a", MaxTopicLen - 1), Rep("a", MaxTopicLen) \o <<" ">>,
      Rep(" ", MaxTopicLen + 1) }

\* the six listed video lengths and strings that are not listed
ValidationLengths ==
    {valid_lengths[i] : i \in 1..Len(valid_lengths)} \cup
    {"", "30 minutes", "10-12", "10-12 Minutes", "10-12 minutes "}

Tones == {"educational", "professional"}

\* the steps of a run, in the order of the code
StepOrder == <<"Scoring", "CompetitionAnalysis", "Research", "GapAnalysis",
               "ScriptGeneration", "SEOOptimization">>

\* package[key] = value
Put(pkg, key, value) == (key :> value) @@ pkg

\* the dict literal of lines 137-145
NewPackage(a) ==
    [topic |-> a.topic, timestamp |-> "now",
     settings |-> [video_length |-> a.video_length, tone |-> a.tone,
                   include_seo |-> a.include_seo]]

\* the dict literal of lines 249-257
NewVariationsPackage(a) ==
    [topic |-> a.topic, timestamp |-> "now",
     settings |-> [video_length |-> a.video_length, variations |-> TRUE,
                   include_seo |-> a.include_seo]]

\* a rejection that returns the package literal of an accepted run
RejectedPackage_WithTimestamp(error_msg, topic) ==
    [error |-> error_msg, topic |-> topic, timestamp |-> "now"]

\* line 123: the package returned for a rejected input
RejectedPackage(error_msg, topic) == [error |-> error_msg, topic |-> topic]

\* a try block that opens after the scoring step
InTry_AfterScoring(step) == step >= 2

\* the steps whose code lies inside the try block (all six)
InTry(step) == step >= 1

\* a handler that returns an all-or-nothing package
OnException_DropsFields(pkg, msg) == [topic |-> pkg["topic"], error |-> msg]

\* except Exception as e: package['error'] = str(e); return package
OnException(pkg, msg) == Put(pkg, "error", msg)

NoFailure == [step |-> 0, msg |-> "", origin |-> "none"]

KeyErrorMsg == "'recommendation'"

NoRemote == [video |-> 0, web |-> 0, llm |-> 0]

Unset == [kind |-> "unset"]

NoLocals == [youtube_analysis |-> Unset, research_data |-> Unset,
             gap_analysis |-> Unset, script |-> Unset, script_variations |-> <<>>]

NoArgs == [topic |-> <<>>, video_length |-> "", tone |-> "", include_seo |-> FALSE]

Init ==
    /\ pc = "idle"
    /\ mode = "none"
    /\ args = NoArgs
    /\ package = <<>>
    /\ locals = NoLocals
    /\ calls = <<>>
    /\ remote = NoRemote
    /\ ledger \in [enabled : BOOLEAN, operations : {<<>>}, total_cost : {0}]
    /\ runs = 0
    /\ failure = NoFailure
    /\ ledger0 = ledger
    /\ ctor = Constructed(ledger.enabled)
    /\ tracker = NoTracker
    /\ retry = NoRetry
    /\ safe = NoSafe
    /\ scorer = <<>>

\* a caller invokes create_content_package
CallCreateContentPackage ==
    /\ pc = "idle"
    /\ ctor.instance
    /\ runs < MaxRuns
    /\ \E t \in Topics, vl \in VideoLengths, tn \in Tones, seo \in BOOLEAN :
          args' = [topic |-> t, video_length |-> vl, tone |-> tn, include_seo |-> seo]
    /\ mode' = "single"
    /\ pc' = "Validating"
    /\ package' = <<>>
    /\ locals' = NoLocals
    /\ calls' = <<>>
    /\ remote' = NoRemote
    /\ failure' = NoFailure
    /\ UNCHANGED <<ledger, runs>>
    /\ ledger0' = ledger
    /\ UNCHANGED <<unitVars, ctor>>

\* lines 119-145: the validation gate, then the empty package
Validate ==
    /\ pc = "Validating"
    /\ LET v == validate_input(args.topic, args.video_length) IN
       IF ~v.is_valid
       THEN /\ package' = RejectedPackage(v.error_msg, args.topic)
            /\ failure' = [step |-> 0, msg |-> v.error_msg, origin |-> "validate"]
            /\ pc' = "Failed"
       ELSE /\ package' = NewPackage(args)
            /\ failure' = failure
            /\ pc' = "Scoring"
    /\ UNCHANGED <<mode, args, locals, calls, remote, ledger, runs>>
    /\ UNCHANGED <<ledger0, unitVars, ctor>>

\* a caller invokes create_package_with_variations: lines 243-257
CallCreatePackageWithVariations ==
    /\ pc = "idle"
    /\ ctor.instance
    /\ runs < MaxRuns
    /\ \E t \in VariationTopics, vl \in VideoLengths, seo \in BOOLEAN :
          /\ args' = [topic |-> t, video_length |-> vl, tone |-> "", include_seo |-> seo]
          /\ package' = NewVariationsPackage(args')
    /\ mode' = "variations"
    /\ pc' = "Scoring"
    /\ locals' = NoLocals
    /\ calls' = <<>>
    /\ remote' = NoRemote
    /\ failure' = NoFailure
    /\ UNCHANGED <<ledger, runs>>
    /\ ledger0' = ledger
    /\ UNCHANGED <<unitVars, ctor>>

\* an exception raised in step k with message msg, the package being pkg:
\* caught by the except block when the step lies in the try block,
\* propagated to the caller otherwise
Raise(k, msg, origin, pkg) ==
    /\ failure' = [step |-> k, msg |-> msg, origin |-> origin]
    /\ IF InTry(k)
       THEN /\ package' = OnException(pkg, msg)
            /\ pc' = "Failed"
       ELSE /\ package' = pkg
            /\ pc' = "Raised"
    /\ UNCHANGED ledger

AddRemote(v, w, l) ==
    remote' = [video |-> remote.video + v, web |-> remote.web + w, llm |-> remote.llm + l]

\* step 1: lines 148-155 and 261-264
\* a lookup that never fails, as score_data.get('recommendation') would be
HasRecommendation_Get(score_data) == TRUE

\* line 152: score_data['recommendation'] raises KeyError without the key
HasRecommendation(score_data) == "recommendation" \in DOMAIN score_data

StepScore ==
    /\ pc = "Scoring"
    /\ \E vresp \in VideoResponses, wresp \in WebResponses :
         LET r == score_topic(args.topic, vresp, wresp)
             pkg == Put(package, "score", r.val)
         IN /\ calls' = Append(calls, [op |-> "score_topic", step |-> 1, llm_failed |-> FALSE])
            /\ AddRemote(1, r.web, r.llm)
            /\ IF r.raised THEN Raise(1, r.msg, "call", package)
               ELSE IF mode = "single" /\ ~HasRecommendation(r.val)
                    THEN Raise(1, KeyErrorMsg, "print", pkg)
               ELSE /\ package' = pkg
                    /\ ledger' = IF mode = "single" THEN Log(ledger, "scoring", 200, 50)
                                 ELSE ledger
                    /\ pc' = "CompetitionAnalysis"
                    /\ failure' = failure
    /\ UNCHANGED <<mode, args, locals, runs>>
    /\ UNCHANGED <<ledger0, unitVars, ctor>>

\* step 2: lines 158-161 and 266-269
StepYouTube ==
    /\ pc = "CompetitionAnalysis"
    /\ \E vresp \in VideoResponses :
         LET youtube_analysis == analyze_top_videos(args.topic, vresp) IN
         /\ calls' = Append(calls, [op |-> "analyze_top_videos", step |-> 2, llm_failed |-> FALSE])
         /\ AddRemote(1, 0, 0)
         /\ locals' = [locals EXCEPT !.youtube_analysis = youtube_analysis]
         /\ package' = Put(package, "youtube_analysis", youtube_analysis)
         /\ pc' = "Research"
    /\ UNCHANGED <<mode, args, ledger, runs, failure>>
    /\ UNCHANGED <<ledger0, unitVars, ctor>>

\* step 3: lines 166-172 and 271-274
StepResearch ==
    /\ pc = "Research"
    /\ \E w1 \in WebResponses, w2 \in WebResponses, w3 \in WebResponses,
          llm \in LLMResponses :
         LET r == research_topic(args.topic, w1, w2, w3, llm) IN
         /\ calls' = Append(calls, [op |-> "research_topic", step |-> 3, llm_failed |-> r.llm_failed])
         /\ AddRemote(0, r.web, r.llm)
         /\ IF r.raised THEN Raise(3, r.msg, "call", package) /\ locals' = locals
            ELSE /\ locals' = [locals EXCEPT !.research_data = r.val]
                 /\ package' = Put(package, "research", r.val)
                 /\ ledger' = IF mode = "single" THEN Log(ledger, "research", 1000, 800)
                              ELSE ledger
                 /\ pc' = "GapAnalysis"
                 /\ failure' = failure
    /\ UNCHANGED <<mode, args, runs>>
    /\ UNCHANGED <<ledger0, unitVars, ctor>>

\* step 4: lines 175-181 and 276-279
StepGaps ==
    /\ pc = "GapAnalysis"
    /\ \E w1 \in WebResponses, w2 \in WebResponses, w3 \in WebResponses,
          llmResearch \in LLMResponses, llmGap \in LLMResponses :
         LET r == analyze_content_gaps(args.topic, locals.youtube_analysis,
                                       w1, w2, w3, llmResearch, llmGap)
         IN
         /\ calls' = Append(calls, [op |-> "analyze_content_gaps", step |-> 4,
                                    llm_failed |-> r.llm_failed,
                                    youtube_data |-> locals.youtube_analysis,
                                    prompt |-> r.prompt])
         /\ AddRemote(0, r.web, r.llm)
         /\ IF r.raised THEN Raise(4, r.msg, "call", package) /\ locals' = locals
            ELSE /\ locals' = [locals EXCEPT !.gap_analysis = r.val]
                 /\ package' = Put(package, "gaps", r.val)
                 /\ ledger' = IF mode = "single" THEN Log(ledger, "gap_analysis", 1500, 600)
                              ELSE ledger
                 /\ pc' = "ScriptGeneration"
                 /\ failure' = failure
    /\ UNCHANGED <<mode, args, runs>>
    /\ UNCHANGED <<ledger0, unitVars, ctor>>

\* dict.get(key, default)
Get(d, key, default) == IF key \in DOMAIN d THEN d[key] ELSE default

None == [kind |-> "None"]

\* a script step that is passed the gap analysis in place of the research
ScriptArgs_GapsForResearch(l, a) ==
    [youtube_analysis |-> l.youtube_analysis, research_data |-> l.gap_analysis,
     gap_analysis |-> l.gap_analysis, video_length |-> a.video_length]

\* the arguments the script step passes on (lines 185-188 and 284-287)
ScriptArgs(l, a) ==
    [youtube_analysis |-> l.youtube_analysis, research_data |-> l.research_data,
     gap_analysis |-> l.gap_analysis, video_length |-> a.video_length]

\* step 5 of create_content_package: lines 184-193, and the else branch of
\* step 6 (lines 206-208) when no SEO was requested
StepScript ==
    /\ pc = "ScriptGeneration"
    /\ mode = "single"
    /\ \E llm \in LLMResponses :
         LET sa == ScriptArgs(locals, args)
             script == write_script(args.topic, sa.youtube_analysis, sa.research_data,
                                    sa.gap_analysis, sa.video_length, args.tone, llm)
             pkg == Put(package, "script", script)
         IN
         /\ calls' = Append(calls, [op |-> "write_script", step |-> 5,
                                    llm_failed |-> ~llm.ok,
                                    tone |-> args.tone] @@ sa)
         /\ AddRemote(0, 0, 1)
         /\ locals' = [locals EXCEPT !.script = script]
         /\ ledger' = Log(ledger, "script", 2000, 1500)
         /\ IF args.include_seo
            THEN package' = pkg /\ pc' = "SEOOptimization"
            ELSE package' = Put(pkg, "seo", None) /\ pc' = "Complete"
    /\ UNCHANGED <<mode, args, runs, failure>>
    /\ UNCHANGED <<ledger0, unitVars, ctor>>

\* step 5 of create_package_with_variations: lines 282-289, and the else
\* branch of step 6 (line 302)
StepScriptVariations ==
    /\ pc = "ScriptGeneration"
    /\ mode = "variations"
    /\ \E llms \in [1..Len(tones) -> LLMResponses], llmCompare \in LLMResponses :
         LET sa == ScriptArgs(locals, args)
             script_variations ==
                 write_multiple_variations(args.topic, sa.youtube_analysis,
                     sa.research_data, sa.gap_analysis, sa.video_length, llms, llmCompare)
             pkg == Put(package, "scripts", script_variations)
         IN
         /\ calls' = calls
                \o <<[op |-> "write_multiple_variations", step |-> 5,
                      llm_failed |-> (~llmCompare.ok \/ \E i \in 1..Len(tones) : ~llms[i].ok)] @@ sa>>
                \o [i \in 1..Len(tones) |->
                      [op |-> "write_script", step |-> 5, llm_failed |-> ~llms[i].ok,
                       tone |-> tones[i]] @@ sa]
                \o <<[op |-> "_compare_script_variations", step |-> 5,
                      llm_failed |-> ~llmCompare.ok]>>
         /\ AddRemote(0, 0, Len(tones) + 1)
         /\ locals' = [locals EXCEPT !.script_variations = script_variations]
         /\ IF args.include_seo
            THEN package' = pkg /\ pc' = "SEOOptimization"
            ELSE package' = Put(pkg, "seo", None) /\ pc' = "Complete"
    /\ UNCHANGED <<mode, args, ledger, runs, failure>>
    /\ UNCHANGED <<ledger0, unitVars, ctor>>

\* lines 294-295: the script the SEO step of the variation pipeline is given
\* the SEO step seeded with the first tone
main_script_EducationalFirst(script_variations) ==
    Get(script_variations, "educational",
        Get(script_variations, "entertaining", [kind |-> ""]))

main_script(script_variations) ==
    Get(script_variations, "entertaining",
        Get(script_variations, "educational", [kind |-> ""]))

\* step 6: lines 196-205 and 292-300
StepSEO ==
    /\ pc = "SEOOptimization"
    /\ \E llm \in LLMResponses :
         LET script == IF mode = "single" THEN locals.script ELSE main_script(locals.script_variations)
             seo_metadata == optimize_metadata(args.topic, script,
                                 locals.youtube_analysis, locals.research_data, llm)
         IN
         /\ calls' = Append(calls, [op |-> "optimize_metadata", step |-> 6, llm_failed |-> ~llm.ok,
                                    script |-> script,
                                    youtube_analysis |-> locals.youtube_analysis,
                                    research_data |-> locals.research_data])
         /\ AddRemote(0, 0, 1)
         /\ package' = Put(package, "seo", seo_metadata)
         /\ ledger' = IF mode = "single" THEN Log(ledger, "seo", 1200, 500) ELSE ledger
         /\ pc' = "Complete"
    /\ UNCHANGED <<mode, args, locals, runs, failure>>
    /\ UNCHANGED <<ledger0, unitVars, ctor>>

\* return package (lines 123, 221, 228, 308, 313): the package goes to the
\* caller and the frame of the call is dropped; the orchestrator keeps its
\* cost tracker
Return ==
    /\ pc \in {"Complete", "Failed"}
    /\ pc' = "idle"
    /\ runs' = runs + 1
    /\ mode' = "none"
    /\ args' = NoArgs
    /\ package' = <<>>
    /\ locals' = NoLocals
    /\ calls' = <<>>
    /\ remote' = NoRemote
    /\ failure' = NoFailure
    /\ UNCHANGED ledger
    /\ ledger0' = ledger
    /\ UNCHANGED <<unitVars, ctor>>

Next ==
    \/ CallCreateContentPackage
    \/ Validate
    \/ CallCreatePackageWithVariations
    \/ StepScore
    \/ StepYouTube
    \/ StepResearch
    \/ StepGaps
    \/ StepScript
    \/ StepScriptVariations
    \/ StepSEO
    \/ Return

Spec == Init /\ [][Next]_vars

\* create_content_package called with inputs around the limits of
\* validate_input
CallValidateInput ==
    /\ pc = "idle"
    /\ ctor.instance
    /\ runs < MaxRuns
    /\ \E t \in ValidationTopics, vl \in ValidationLengths, tn \in Tones, seo \in BOOLEAN :
          args' = [topic |-> t, video_length |-> vl, tone |-> tn, include_seo |-> seo]
    /\ mode' = "single"
    /\ pc' = "Validating"
    /\ package' = <<>>
    /\ locals' = NoLocals
    /\ calls' = <<>>
    /\ remote' = NoRemote
    /\ failure' = NoFailure
    /\ UNCHANGED <<ledger, runs>>
    /\ ledger0' = ledger
    /\ UNCHANGED <<unitVars, ctor>>

\* the validation gate alone: a call, its validation, the return of a
\* rejected call
NextValidate ==
    \/ CallValidateInput
    \/ Validate
    \/ Return

SpecValidate == Init /\ [][NextValidate]_vars

(***************************************************************************)
(* utils/cost_tracker.py driven on its own                                 *)
(***************************************************************************)
\* number of log_operation calls and of save_session calls on one tracker
MaxOps == 2
MaxSaves == 2

\* the contents of the log file when the tracker is constructed
LoadedHistories ==
    { <<>>, <<LoadedSession(25000), LoadedSession(90000)>> }

\* the token counts (input, output) of the logged operations
TokenCounts == { <<0, 0>>, <<1, 0>>, <<1000, 500>>, <<2000, 1500>> }

\* the models operations are logged on: those of the price table and one
\* that is not in it
Models == PricedModels \cup FlatModels \cup {"gpt-3.5-turbo"}

\* the operation kinds: those of the table of estimates and one that is
\* not in it
OperationKinds == DOMAIN estimates \cup {"thumbnail"}

\* the pipeline is not running
PipelineIdle ==
    /\ pc = "idle"
    /\ mode = "none"
    /\ args = NoArgs
    /\ package = <<>>
    /\ locals = NoLocals
    /\ calls = <<>>
    /\ remote = NoRemote
    /\ ledger = [enabled |-> FALSE, operations |-> <<>>, total_cost |-> 0]
    /\ runs = 0
    /\ failure = NoFailure
    /\ ledger0 = ledger
    /\ ctor = Constructed(FALSE)

\* CostTracker(log_file): lines 18-31
InitTracker ==
    /\ PipelineIdle
    /\ tracker \in {[NoTracker EXCEPT !.history = h, !.loaded = h] : h \in LoadedHistories}
    /\ retry = NoRetry
    /\ safe = NoSafe
    /\ scorer = <<>>

\* a caller invokes log_operation: lines 33-64
LogOperation ==
    /\ Len(tracker.calls) < MaxOps
    /\ \E tk \in TokenCounts, model \in Models :
         LET r == log_operation(tracker.current_session, "research", tk[1], tk[2], model) IN
         tracker' = [tracker EXCEPT
                       !.current_session = r.session,
                       !.calls = Append(@, [tokens_input |-> tk[1], tokens_output |-> tk[2],
                                            model |-> model, raised |-> r.raised,
                                            cost |-> r.cost]),
                       !.out = NoOut]
    /\ UNCHANGED <<pipelineVars, retry, safe, scorer>>

\* a caller invokes save_session: lines 105-111
SaveSession ==
    /\ Len(tracker.history) < Len(tracker.loaded) + MaxSaves
    /\ tracker' = [save_session(tracker) EXCEPT !.out = NoOut]
    /\ UNCHANGED <<pipelineVars, retry, safe, scorer>>

\* a caller invokes get_session_cost: lines 88-90
GetSessionCost ==
    /\ \E tie_up \in BOOLEAN :
         tracker' = [tracker EXCEPT !.out =
                        [op |-> "get_session_cost", arg |-> "",
                         value |-> get_session_cost(tracker.current_session, tie_up)]]
    /\ UNCHANGED <<pipelineVars, retry, safe, scorer>>

\* a caller invokes get_total_project_cost: lines 113-117
GetTotalProjectCost ==
    /\ \E tie_up \in BOOLEAN :
         tracker' = [tracker EXCEPT !.out =
                        [op |-> "get_total_project_cost", arg |-> "",
                         value |-> get_total_project_cost(tracker, tie_up)]]
    /\ UNCHANGED <<pipelineVars, retry, safe, scorer>>

\* a caller invokes estimate_cost: lines 66-86
EstimateCost ==
    /\ \E kind \in OperationKinds :
         tracker' = [tracker EXCEPT !.out =
                        [op |-> "estimate_cost", arg |-> kind,
                         value |-> estimate_cost(kind)]]
    /\ UNCHANGED <<pipelineVars, retry, safe, scorer>>

NextTracker ==
    \/ LogOperation
    \/ SaveSession
    \/ GetSessionCost
    \/ GetTotalProjectCost
    \/ EstimateCost

SpecTracker == InitTracker /\ [][NextTracker]_vars

(***************************************************************************)
(* utils/error_handler.py driven on its own                                *)
(***************************************************************************)
\* the largest max_retries a function is wrapped with
MaxRetries == 3

\* the values of max_retries and of delay the decorator is given
RetryCounts == (0 - 1)..MaxRetries
Delays == {1, 2}

\* the default_return values safe_execute is given
Defaults == {"None", "fallback"}

InitErrorHandler ==
    /\ PipelineIdle
    /\ tracker = NoTracker
    /\ retry = NoRetry
    /\ safe = NoSafe
    /\ scorer = <<>>

\* a caller invokes a function decorated with retry_on_error(max_retries,
\* delay): lines 14-15
CallWrapper ==
    /\ retry.pc = "idle"
    /\ \E n \in RetryCounts, d \in Delays :
         retry' = [NoRetry EXCEPT !.pc = "loop", !.max_retries = n, !.delay = d]
    /\ UNCHANGED <<pipelineVars, tracker, safe, scorer>>

\* one pass of the loop: lines 17-27
Attempt ==
    /\ retry.pc = "loop"
    /\ retry.attempt < retry.max_retries
    /\ \E ok \in BOOLEAN : retry' = attempt_once(retry, ok)
    /\ UNCHANGED <<pipelineVars, tracker, safe, scorer>>

\* the loop is over: line 29
RaiseLast ==
    /\ retry.pc = "loop"
    /\ retry.attempt >= retry.max_retries
    /\ retry' = raise_last(retry)
    /\ UNCHANGED <<pipelineVars, tracker, safe, scorer>>

\* the caller has the result or the exception of the wrapped call
WrapperDone ==
    /\ retry.pc \in {"returned", "raised"}
    /\ retry' = NoRetry
    /\ UNCHANGED <<pipelineVars, tracker, safe, scorer>>

\* a caller invokes safe_execute(func, default_return): lines 46-51
SafeExecute ==
    /\ safe.pc = "idle"
    /\ \E func \in Funcs, default_return \in Defaults :
         safe' = [pc |-> "returned", func |-> func, default_return |-> default_return,
                  outcome |-> safe_execute(func, default_return)]
    /\ UNCHANGED <<pipelineVars, tracker, retry, scorer>>

\* the caller has the result of safe_execute
SafeDone ==
    /\ safe.pc = "returned"
    /\ safe' = NoSafe
    /\ UNCHANGED <<pipelineVars, tracker, retry, scorer>>

NextErrorHandler ==
    \/ CallWrapper
    \/ Attempt
    \/ RaiseLast
    \/ WrapperDone
    \/ SafeExecute
    \/ SafeDone

SpecErrorHandler == InitErrorHandler /\ [][NextErrorHandler]_vars

\* the wrapper is sequential code: the wrapped function and time.sleep
\* return, so a pass of the loop that can be made is made, and so is the
\* raise after the loop
FairSpecErrorHandler ==
    SpecErrorHandler /\ WF_vars(Attempt) /\ WF_vars(RaiseLast)

(***************************************************************************)
(* agents/topic_scorer.py driven on its own                                *)
(***************************************************************************)
\* the video lists the search answers with: none, one video at and next
\* to every threshold of the demand and the competition score, videos of
\* every engagement bucket, lists whose average sits on a threshold, a
\* list of the search's full length, videos that were never viewed (with
\* and without likes), a video that is in demand and engaging
ScoringVideoLists ==
    { <<>>,
      <<Video(0, 0)>>,
      <<Video(100000, 0)>>, <<Video(100001, 0)>>,
      <<Video(500000, 6000)>>, <<Video(500001, 0)>>,
      <<Video(1000000, 35000)>>, <<Video(1000001, 0)>>,
      <<Video(5000000, 125000)>>, <<Video(5000001, 0)>>,
      <<Video(10000000, 170000)>>, <<Video(10000001, 0)>>,
      <<Video(4999999, 0), Video(5000001, 0)>>,
      <<Video(5000000, 0), Video(5000002, 0)>>,
      <<Video(0, 0), Video(200001, 5000)>>,
      <<Video(0, 7)>>,
      <<Video(6000000, 240000)>>,
      Rep(Video(200000, 8000), 10) }

\* the search answers with a list of videos, or fails
ScoringVideoResponses ==
    { [ok |-> TRUE, items |-> vs] : vs \in ScoringVideoLists } \cup
    { [ok |-> FALSE, items |-> <<>>] }

\* the web search answers with 0 to 6 results, fails, or answers with a
\* null result list
ScoringWebResponses ==
    { [kind |-> "list", items |-> Rep("ok", k)] : k \in {0, 2, 3, 4, 5, 6} } \cup
    { [kind |-> "error", items |-> <<>>], [kind |-> "null", items |-> <<>>] }

ScoringTopic == <<"a", "i">>

InitScorer ==
    /\ PipelineIdle
    /\ tracker = NoTracker
    /\ retry = NoRetry
    /\ safe = NoSafe
    /\ scorer = <<>>

\* a caller invokes score_topic; scorer keeps the last call: the answers
\* of the two searches and the outcome
ScoreTopic ==
    /\ \E vresp \in ScoringVideoResponses, wresp \in ScoringWebResponses :
         scorer' = <<[vresp |-> vresp, wresp |-> wresp,
                      outcome |-> score_topic(ScoringTopic, vresp, wresp)]>>
    /\ UNCHANGED <<pipelineVars, tracker, retry, safe>>

NextScorer ==
    \/ ScoreTopic

SpecScorer == InitScorer /\ [][NextScorer]_vars

\* ---- YouTubeContentOrchestrator(track_costs): the constructor, and the
\* ---- first things a caller can do with what it returns.  The state
\* ---- before the call: whether costs are tracked, whether the
\* ---- environment holds YOUTUBE_API_KEY, and the file logs/costs.json
LogFiles == {"absent", "valid", "corrupt"}

InitConstruct ==
    /\ pc = "idle"
    /\ mode = "none"
    /\ args = NoArgs
    /\ package = <<>>
    /\ locals = NoLocals
    /\ calls = <<>>
    /\ remote = NoRemote
    /\ runs = 0
    /\ failure = NoFailure
    /\ \E track_costs \in BOOLEAN, youtube_key \in BOOLEAN, log_file \in LogFiles :
         /\ ctor = [pc |-> "start", track_costs |-> track_costs,
                    youtube_key |-> youtube_key, log_file |-> log_file,
                    tracker |-> FALSE, constructed |-> <<>>, error |-> "",
                    instance |-> FALSE]
         /\ ledger = [enabled |-> track_costs, operations |-> <<>>, total_cost |-> 0]
    /\ ledger0 = ledger
    /\ tracker = NoTracker
    /\ retry = NoRetry
    /\ safe = NoSafe
    /\ scorer = <<>>

\* line 41, before the try: CostTracker() if track_costs else None; the
\* tracker's constructor parses logs/costs.json when the file exists
ConstructCostTracker ==
    /\ ctor.pc = "start"
    /\ ctor' = IF ctor.track_costs /\ ctor.log_file = "corrupt"
               THEN [ctor EXCEPT !.pc = "raised", !.error = "JSONDecodeError"]
               ELSE [ctor EXCEPT !.pc = "try", !.tracker = ctor.track_costs]
    /\ UNCHANGED <<pc, mode, args, package, locals, calls, remote, ledger, runs,
                   failure, ledger0, unitVars>>

\* lines 46-59, inside the try: the next collaborator of the order
ConstructCollaborator ==
    /\ ctor.pc = "try"
    /\ Len(ctor.constructed) < Len(ConstructionOrder)
    /\ LET name == ConstructionOrder[Len(ctor.constructed) + 1]
       IN \E o \in Outcomes(name, ctor.youtube_key) :
            ctor' = IF o = "ok"
                    THEN [ctor EXCEPT !.constructed = Append(@, name)]
                    ELSE [ctor EXCEPT !.pc = "except", !.error = o]
    /\ UNCHANGED <<pc, mode, args, package, locals, calls, remote, ledger, runs,
                   failure, ledger0, unitVars>>

\* lines 69-71: the except block
InitExcept ==
    /\ ctor.pc = "except"
    /\ ctor' = on_init_error(ctor)
    /\ UNCHANGED <<pc, mode, args, package, locals, calls, remote, ledger, runs,
                   failure, ledger0, unitVars>>

\* lines 61-68: every collaborator is there; __init__ returns
InitDone ==
    /\ ctor.pc = "try"
    /\ Len(ctor.constructed) = Len(ConstructionOrder)
    /\ ctor' = [ctor EXCEPT !.pc = "done", !.instance = TRUE]
    /\ UNCHANGED <<pc, mode, args, package, locals, calls, remote, ledger, runs,
                   failure, ledger0, unitVars>>

NextConstruct ==
    \/ ConstructCostTracker
    \/ ConstructCollaborator
    \/ InitExcept
    \/ InitDone
    \/ CallCreateContentPackage
    \/ Validate
    \/ Return

SpecConstruct == InitConstruct /\ [][NextConstruct]_vars

TypeOK ==
    /\ pc \in {"idle", "Validating", "Scoring", "CompetitionAnalysis", "Research",
               "GapAnalysis", "ScriptGeneration", "SEOOptimization", "Complete",
               "Failed", "Raised"}
    /\ mode \in {"none", "single", "variations"}
    /\ runs \in 0..MaxRuns
    /\ "topic" \in DOMAIN package \/ package = <<>>
    /\ retry.pc \in {"idle", "loop", "returned", "raised"}
    /\ safe.pc \in {"idle", "returned"}
    /\ Len(scorer) <= 1
    /\ Len(tracker.calls) <= MaxOps
    /\ ctor.pc \in {"start", "try", "except", "raised", "done"}
    /\ Len(ctor.constructed) <= Len(ConstructionOrder)

(***************************************************************************)
(* Properties                                                              *)
(***************************************************************************)
\* the content fields of a single-script package, in the order of the steps
ContentOrder == <<"score", "youtube_analysis", "research", "gaps", "script", "seo">>

ContentFields == {ContentOrder[i] : i \in 1..Len(ContentOrder)}

PrefixFields(k) == {ContentOrder[i] : i \in 1..k}

Populated(pkg) == DOMAIN pkg \cap ContentFields

Returning == pc \in {"Complete", "Failed"}

\* C1: in create_content_package the populated content fields are always a
\* prefix of [score, youtube_analysis, research, gaps, script, seo]; when the
\* call of step k raised, the package holds exactly the fields of the steps
\* before k, its error field is the message of the exception, and no
\* collaborator of a later step was invoked.
C1_PartialPackageIsPrefix ==
    mode = "single" =>
      /\ \E k \in 0..Len(ContentOrder) : Populated(package) = PrefixFields(k)
      /\ (pc = "Failed" /\ failure.origin = "call") =>
            /\ Populated(package) = PrefixFields(failure.step - 1)
            /\ "error" \in DOMAIN package
            /\ package["error"] = failure.msg
            /\ \A i \in 1..Len(calls) : calls[i].step <= failure.step

\* a run whose gap-analysis call raised after three steps had succeeded
C1_Witness ==
    /\ mode = "single"
    /\ pc = "Failed"
    /\ failure.origin = "call"
    /\ failure.step = 4
    /\ Populated(package) = {"score", "youtube_analysis", "research"}

\* the text generation of the script step of this run raised
ScriptGenerationFailed ==
    \E i \in 1..Len(calls) : calls[i].op = "write_script" /\ calls[i].llm_failed

\* C2: when the text generation of the script step fails after the
\* competition, research and gap steps succeeded, the package has those three
\* fields, no script field and a non-empty error field, and the SEO step is
\* not run.
C2_ScriptFailureStopsRun ==
    (mode = "single" /\ ScriptGenerationFailed) =>
      /\ pc = "Failed"
      /\ {"youtube_analysis", "research", "gaps"} \subseteq DOMAIN package
      /\ "script" \notin DOMAIN package
      /\ "error" \in DOMAIN package
      /\ package["error"] # ""
      /\ \A i \in 1..Len(calls) : calls[i].op # "optimize_metadata"

ScoreComplete(score) ==
    {"total_score", "recommendation", "confidence"} \subseteq DOMAIN score

\* C4: a package returned without an error field is complete: a score with
\* total_score, recommendation and confidence, the youtube_analysis, research
\* and gaps texts, the script (the scripts in variation mode) and the seo key.
C4_ErrorFreePackageIsComplete ==
    (Returning /\ "error" \notin DOMAIN package) =>
      /\ {"score", "youtube_analysis", "research", "gaps", "seo"} \subseteq DOMAIN package
      /\ ScoreComplete(package["score"])
      /\ mode = "single" => "script" \in DOMAIN package
      /\ mode = "variations" =>
            /\ "scripts" \in DOMAIN package
            /\ \A i \in 1..Len(tones) : tones[i] \in DOMAIN package["scripts"]

Rejected == ~validate_input(args.topic, args.video_length).is_valid

\* C5: when validate_input rejects the topic or the video_length,
\* create_content_package returns a package whose only keys are topic and
\* error, invokes no collaborator and leaves the cost ledger unchanged.
C5_RejectedInputShortCircuits ==
    [][ /\ (mode = "single" /\ pc = "Validating" /\ Rejected) =>
            /\ pc' = "Failed"
            /\ DOMAIN package' = {"topic", "error"}
            /\ package'["topic"] = args.topic
            /\ package'["error"] = validate_input(args.topic, args.video_length).error_msg
            /\ calls' = <<>>
            /\ remote' = NoRemote
            /\ ledger' = ledger
        /\ (mode = "single" /\ pc = "Failed" /\ failure.origin = "validate") =>
            /\ pc' = "idle"
            /\ ledger' = ledger
      ]_vars

\* a rejected call of create_content_package about to return
C5_Witness ==
    /\ mode = "single"
    /\ pc = "Failed"
    /\ failure.origin = "validate"
    /\ Rejected
    /\ Len(args.topic) = MaxTopicLen + 1
    /\ ledger.enabled

\* C6: create_package_with_variations called with a topic or a video_length
\* that validate_input rejects invokes no collaborator and returns a package
\* that carries only the topic and the error message.
C6_VariationsAreValidated ==
    (mode = "variations" /\ Rejected) =>
      /\ calls = <<>>
      /\ remote = NoRemote
      /\ Returning => DOMAIN package = {"topic", "error"}

IsWhitespaceOnly(t) == \A i \in 1..Len(t) : t[i] \in Whitespace

ListedLengths == {"5-8 minutes", "8-10 minutes", "10-12 minutes",
                  "12-15 minutes", "15-20 minutes", "20+ minutes"}

C8_AcceptedTopicTrimmedLength ==
    (mode = "single" /\ pc \notin {"idle", "Validating"} /\ failure.origin # "validate") =>
      /\ Len(strip(args.topic)) >= 3
      /\ Len(strip(args.topic)) <= 200
      /\ package["topic"] = args.topic

\* the state that follows step k of a single-script run that went well
NextStep(k) ==
    IF k < 5 THEN StepOrder[k + 1]
    ELSE IF k = 5 /\ args.include_seo THEN "SEOOptimization"
    ELSE "Complete"

\* C9: a single-script run goes through Validating, Scoring,
\* CompetitionAnalysis, Research, GapAnalysis, ScriptGeneration, optional
\* SEOOptimization, Complete in that order; each step's collaborator is
\* invoked once, only after the earlier steps returned successfully; a step
\* that fails takes the run to Failed, and a terminal state only returns.
C9_FixedOrderWithFailedState ==
    [][ mode = "single" =>
        /\ pc = "Validating" => pc' \in {"Scoring", "Failed"}
        /\ \A k \in 1..Len(StepOrder) :
             pc = StepOrder[k] =>
               /\ pc' \in {NextStep(k), "Failed"}
               /\ Len(calls') = Len(calls) + 1
               /\ calls'[Len(calls')].step = k
               /\ \A i \in 1..Len(calls) :
                     calls[i].step < k /\ ~calls[i].llm_failed
               /\ (calls'[Len(calls')].llm_failed \/ failure'.origin # "none")
                     => pc' = "Failed"
        /\ pc \in {"Complete", "Failed"} => pc' = "idle"
      ]_vars

GapCalls == {i \in 1..Len(calls) : calls[i].op = "analyze_content_gaps"}

ScriptCalls == {i \in 1..Len(calls) : calls[i].op = "write_script"}

\* the script step was given the values of the package
ScriptStepGivenPackageValues ==
    \A i \in ScriptCalls :
       /\ calls[i].youtube_analysis = package["youtube_analysis"]
       /\ calls[i].research_data = package["research"]
       /\ calls[i].gap_analysis = package["gaps"]

\* C10 as claimed: gap analysis works on the youtube_analysis and research
\* values of the package, and the script step receives the package's
\* youtube_analysis, research and gaps values.
C10_GapsUsePackageResearch ==
    /\ \A i \in GapCalls :
          /\ calls[i].youtube_data = package["youtube_analysis"]
          /\ "research" \in DOMAIN calls[i].prompt =>
                /\ calls[i].prompt.youtube_data = package["youtube_analysis"]
                /\ calls[i].prompt.research = package["research"]
    /\ ScriptStepGivenPackageValues

\* C10 amended: gap analysis is given the youtube_analysis value of the
\* package and works on it (its research text comes from a research_topic
\* call of its own); the script step receives the package's
\* youtube_analysis, research and gaps values.
C10_GapsUsePackageCompetition ==
    /\ \A i \in GapCalls :
          /\ calls[i].youtube_data = package["youtube_analysis"]
          /\ "research" \in DOMAIN calls[i].prompt =>
                calls[i].prompt.youtube_data = package["youtube_analysis"]
    /\ ScriptStepGivenPackageValues

\* a run whose script step ran after a gap analysis that worked on a
\* research text other than the one of the package
C10_Witness ==
    /\ mode = "single"
    /\ ScriptCalls # {}
    /\ \E i \in GapCalls :
          /\ "research" \in DOMAIN calls[i].prompt
          /\ calls[i].prompt.research # package["research"]

(***************************************************************************)
(* The cost entries of the pipeline                                        *)
(***************************************************************************)
\* step k of the run completed: its collaborator was called and the step
\* did not raise
Completed(k) == (\E i \in 1..Len(calls) : calls[i].step = k) /\ failure.step # k

\* the entry a completed step is to append: kind, input tokens, output
\* tokens; the competition step (2) is to append none
StepEntry(k) ==
    IF ~Completed(k) \/ k = 2 THEN <<>>
    ELSE << CASE k = 1 -> <<"scoring", 200, 50>>
              [] k = 3 -> <<"research", 1000, 800>>
              [] k = 4 -> <<"gap_analysis", 1500, 600>>
              [] k = 5 -> <<"script", 2000, 1500>>
              [] k = 6 -> <<"seo", 1200, 500>> >>

\* the entries of the steps of the run that completed, in step order
RunEntries ==
    StepEntry(1) \o StepEntry(2) \o StepEntry(3) \o StepEntry(4) \o StepEntry(5)
        \o StepEntry(6)

\* C11: with cost tracking enabled, the ledger entries appended by one
\* create_content_package run are, in order, scoring(200,50),
\* research(1000,800), gap_analysis(1500,600), script(2000,1500),
\* seo(1200,500), truncated to the steps that completed: one entry per
\* completed step, none for the competition step, none for a step that
\* raised or was skipped; the entries logged before the run are kept.
C11_RunAppendsStepEntries ==
    (mode = "single" /\ ledger.enabled) =>
        LET n0 == Len(ledger0.operations)
            ops == ledger.operations
        IN /\ Len(ops) = n0 + Len(RunEntries)
           /\ SubSeq(ops, 1, n0) = ledger0.operations
           /\ \A i \in 1..Len(RunEntries) :
                /\ ops[n0 + i].type = RunEntries[i][1]
                /\ ops[n0 + i].tokens_input = RunEntries[i][2]
                /\ ops[n0 + i].tokens_output = RunEntries[i][3]

\* a run with SEO has completed with tracking enabled: five entries
C11_Witness ==
    /\ mode = "single"
    /\ ledger.enabled
    /\ pc = "Complete"
    /\ args.include_seo
    /\ Len(RunEntries) = 5
    /\ Len(ledger.operations) = Len(ledger0.operations) + 5

\* C12: with cost tracking enabled, a create_package_with_variations run
\* logs a cost operation for the completed steps that consume text
\* generation, so the session cost after a completed variation run is
\* strictly greater than before it.
C12_VariationRunLogsCosts ==
    (mode = "variations" /\ ledger.enabled /\ pc = "Complete") =>
        /\ Len(ledger.operations) > Len(ledger0.operations)
        /\ ledger.total_cost > ledger0.total_cost

(***************************************************************************)
(* The cost tracker                                                        *)
(***************************************************************************)
RECURSIVE SumCosts(_)
SumCosts(cs) == IF cs = <<>> THEN 0 ELSE Head(cs).cost + SumCosts(Tail(cs))

\* tokens_in * price_in[model] + tokens_out * price_out[model], 0 for a
\* model that has no per-token prices
PricedCost(c) ==
    IF c.model \in PricedModels
    THEN c.tokens_input * PriceInput + c.tokens_output * PriceOutput
    ELSE 0

\* v is total rounded to cents
RoundedToCents(v, total) ==
    /\ v % Cent = 0
    /\ 2 * (v - total) <= Cent
    /\ 2 * (total - v) <= Cent

\* the calls (1000, 500) then (2000, 1500) on the default model
ExampleCalls ==
    /\ Len(tracker.calls) = 2
    /\ \A i \in 1..2 : tracker.calls[i].model = DefaultModel
    /\ tracker.calls[1].tokens_input = 1000 /\ tracker.calls[1].tokens_output = 500
    /\ tracker.calls[2].tokens_input = 2000 /\ tracker.calls[2].tokens_output = 1500

\* C13: after any sequence of log_operation calls on one tracker the
\* ledger holds exactly one operation per call, in call order; each call
\* returned tokens_in * price_in[model] + tokens_out * price_out[model];
\* the running total is the sum of the returned costs; get_session_cost is
\* that sum rounded to cents, 0.09 for (1000, 500) then (2000, 1500) on the
\* default model.
C13_LedgerMatchesCalls ==
    LET cs == tracker.calls
        ops == tracker.current_session.operations
    IN /\ Len(ops) = Len(cs)
       /\ \A i \in 1..Len(cs) :
            /\ ~cs[i].raised
            /\ cs[i].cost = PricedCost(cs[i])
            /\ i <= Len(ops) =>
                 /\ ops[i].model = cs[i].model
                 /\ ops[i].tokens_input = cs[i].tokens_input
                 /\ ops[i].tokens_output = cs[i].tokens_output
       /\ tracker.current_session.total_cost = SumCosts(cs)
       /\ tracker.out.op = "get_session_cost" =>
            /\ RoundedToCents(tracker.out.value, SumCosts(cs))
            /\ ExampleCalls => tracker.out.value = 9 * Cent

\* the estimates of the table, in dollars: lines 77-84
TableEstimate(kind) ==
    CASE kind = "research" -> 15 * Cent
      [] kind = "script" -> 20 * Cent
      [] kind = "seo" -> 10 * Cent
      [] kind = "gap_analysis" -> 15 * Cent
      [] kind = "comparison" -> 10 * Cent
      [] kind = "complete_package" -> 70 * Cent
      [] OTHER -> 10 * Cent

\* C14: the cost tracker never raises: for every model, absent from the
\* price table or present in it (including 'youtube_api' and 'tavily'),
\* log_operation returns a cost and appends an entry, and a model with no
\* per-token prices costs zero; estimate_cost returns the table value for
\* a known kind and 0.10 for an unknown kind, whatever the ledger holds.
C14_CostTrackerNeverRaises ==
    /\ \A i \in 1..Len(tracker.calls) :
         /\ ~tracker.calls[i].raised
         /\ tracker.calls[i].model \notin PricedModels => tracker.calls[i].cost = 0
    /\ Len(tracker.current_session.operations) = Len(tracker.calls)
    /\ tracker.out.op = "estimate_cost" =>
         tracker.out.value = TableEstimate(tracker.out.arg)

\* C15: after any interleaving of log_operation and save_session calls,
\* get_total_project_cost is the sum of the totals of the sessions loaded
\* at construction plus the total of the live session, rounded to cents:
\* the live session is counted exactly once.
C15_LiveSessionCountedOnce ==
    tracker.out.op = "get_total_project_cost" =>
        RoundedToCents(tracker.out.value,
                       SumTotals(tracker, tracker.loaded)
                          + tracker.current_session.total_cost)

(***************************************************************************)
(* The error handlers                                                      *)
(***************************************************************************)
\* the number of events of one kind in a trace of the wrapper
Count(tr, ev) == Cardinality({i \in 1..Len(tr) : tr[i].ev = ev})

\* the wrapped call has failed at every attempt it made so far
AllFailedSoFar == retry.pc \in {"loop", "raised"}

\* the counts of a wrapped call that raised after max_retries = n >= 1
\* attempts: n invocations, n - 1 sleeps of the fixed delay, each between
\* two invocations, and the exception of the last invocation
ExhaustedRetries ==
    LET n == retry.max_retries
        tr == retry.trace
    IN /\ Count(tr, "invoke") = n
       /\ Count(tr, "sleep") = n - 1
       /\ Len(tr) = 2 * n - 1
       /\ \A i \in 1..Len(tr) :
            IF i % 2 = 1 THEN tr[i].ev = "invoke"
            ELSE tr[i].ev = "sleep" /\ tr[i].seconds = retry.delay
       /\ retry.outcome.kind = "raised"
       /\ retry.outcome.exception = OpError(n)

\* C16: a function wrapped by retry_on_error with max_retries = n >= 1
\* that fails at every attempt is invoked exactly n times, the wrapper
\* sleeps the fixed delay exactly n - 1 times (never after the last
\* attempt), and then the exception of the final attempt is raised to the
\* caller.
C16_RetryExhaustion ==
    /\ [](retry.max_retries >= 1 /\ AllFailedSoFar =>
            /\ Count(retry.trace, "invoke") <= retry.max_retries
            /\ Count(retry.trace, "sleep") <= retry.max_retries - 1
            /\ retry.pc = "raised" => ExhaustedRetries)
    /\ (retry.pc = "loop") ~> (retry.pc \in {"returned", "raised"})

\* three attempts have failed and the third exception has been raised
C16_Witness ==
    /\ retry.pc = "raised"
    /\ retry.max_retries = 3
    /\ retry.delay = 2
    /\ Len(retry.trace) = 5
    /\ retry.outcome.exception = OpError(3)

\* C17: safe_execute invokes the function exactly once; it returns the
\* function's result on success and default_return on an exception; it
\* never propagates the exception and never retries.
C17_SafeExecuteOnce ==
    safe.pc = "returned" =>
        /\ safe.outcome.invocations = 1
        /\ ~safe.outcome.raised
        /\ safe.outcome.value = IF safe.func.raised THEN safe.default_return
                                ELSE safe.func.value

\* the function raised and the caller got the default
C17_Witness ==
    /\ safe.pc = "returned"
    /\ safe.func.raised
    /\ safe.default_return = "fallback"
    /\ safe.outcome.value = "fallback"

(***************************************************************************)
(* The topic score                                                         *)
(***************************************************************************)
\* the videos the scorer was given by the search
Videos(sc) == search_videos(sc[1].vresp)

\* the call returned a full score
Scored(sc) ==
    /\ sc # <<>>
    /\ ~sc[1].outcome.raised
    /\ "breakdown" \in DOMAIN sc[1].outcome.val

Breakdown(sc) == sc[1].outcome.val.breakdown

\* avg_views of vs: strictly above t, and at most that of ws
AvgAbove(vs, t) == SumViews(vs) > t * Len(vs)
AvgLeq(vs, ws) == SumViews(vs) * Len(ws) <= SumViews(ws) * Len(vs)

\* the step function of the demand score
DemandStep(vs) ==
    IF AvgAbove(vs, 5000000) THEN 100
    ELSE IF AvgAbove(vs, 1000000) THEN 80
    ELSE IF AvgAbove(vs, 500000) THEN 60
    ELSE IF AvgAbove(vs, 100000) THEN 40
    ELSE 20

\* C18: demand_score is a monotone non-decreasing step function of
\* avg_views with strict thresholds (100 above 5,000,000, 80 above
\* 1,000,000, 60 above 500,000, 40 above 100,000, else 20): an average of
\* exactly 5,000,000 gives 80 and 5,000,001 gives 100, and of two calls the
\* one with the smaller or equal average has the smaller or equal score.
C18_DemandScoreMonotone ==
    [][Scored(scorer') =>
         /\ Breakdown(scorer').demand_score = DemandStep(Videos(scorer'))
         /\ SumViews(Videos(scorer')) = 5000000 * Len(Videos(scorer'))
               => Breakdown(scorer').demand_score = 80
         /\ SumViews(Videos(scorer')) = 5000001 * Len(Videos(scorer'))
               => Breakdown(scorer').demand_score = 100
         /\ (Scored(scorer) /\ AvgLeq(Videos(scorer), Videos(scorer')))
               => Breakdown(scorer).demand_score <= Breakdown(scorer').demand_score
         /\ (Scored(scorer) /\ AvgLeq(Videos(scorer'), Videos(scorer)))
               => Breakdown(scorer').demand_score <= Breakdown(scorer).demand_score
      ]_vars

\* two videos whose average is exactly 5,000,000 have been scored 80
C18_Witness ==
    /\ Scored(scorer)
    /\ Len(Videos(scorer)) = 2
    /\ SumViews(Videos(scorer)) = 2 * 5000000
    /\ Breakdown(scorer).demand_score = 80

\* the number of results the web search gave the scorer
ResultCount(sc) == Len(search_web(sc[1].wresp).items)

\* tenths is hundredths / 100 rounded to one decimal
RoundedToTenths(tenths, hundredths) ==
    /\ 2 * (10 * tenths - hundredths) <= 10
    /\ 2 * (hundredths - 10 * tenths) <= 10

\* the weighted sum of the sub-scores of a breakdown, in hundredths
Weighted(b) ==
    30 * b.demand_score + 25 * b.competition_score
        + 25 * b.engagement_score + 20 * b.trend_score

\* C19: for every non-empty video list and every search-result count,
\* total_score is 0.30*demand + 0.25*competition + 0.25*engagement +
\* 0.20*trend of the sub-scores of the breakdown, rounded to one decimal
\* (all four at 100 give 100.0, all four at 20 give 20.0); trend is 80 for
\* a count >= 5, 60 for >= 3, else 40; the recommendation and confidence
\* are the strongest/High iff total >= 75, the second/Medium-High iff
\* 60 <= total < 75, the third/Medium iff 45 <= total < 60, and the
\* weakest/Low otherwise.
C19_TotalScoreAndTier ==
    /\ total_score_tenths(100, 100, 100, 100) = 1000
    /\ total_score_tenths(20, 20, 20, 20) = 200
    /\ Scored(scorer) =>
         LET r == scorer[1].outcome.val
             total == r.total_score
         IN /\ RoundedToTenths(total, Weighted(r.breakdown))
            /\ r.breakdown.trend_score =
                 (IF ResultCount(scorer) >= 5 THEN 80
                  ELSE IF ResultCount(scorer) >= 3 THEN 60 ELSE 40)
            /\ (r.confidence = "High") <=> (total >= 750)
            /\ (r.confidence = "Medium-High") <=> (600 <= total /\ total < 750)
            /\ (r.confidence = "Medium") <=> (450 <= total /\ total < 600)
            /\ (r.confidence = "Low") <=> (total < 450)
            /\ (r.recommendation = "STRONG OPPORTUNITY - Create content ASAP!")
                 <=> (r.confidence = "High")
            /\ (r.recommendation = "GOOD OPPORTUNITY - Worth considering")
                 <=> (r.confidence = "Medium-High")
            /\ (r.recommendation = "MODERATE - Needs unique angle")
                 <=> (r.confidence = "Medium")
            /\ (r.recommendation = "CHALLENGING - High competition or low demand")
                 <=> (r.confidence = "Low")

\* a topic has been scored exactly 75.0, the lowest total of the top tier
C19_Witness ==
    /\ Scored(scorer)
    /\ Weighted(Breakdown(scorer)) = 7500
    /\ scorer[1].outcome.val.total_score = 750
    /\ scorer[1].outcome.val.confidence = "High"

\* C20: when the video search returns an empty list, score_topic does not
\* score: it returns a result with an error and total_score 0, makes no
\* web search for the trend, and does not raise.
C20_NoVideosNoScore ==
    (scorer # <<>> /\ Videos(scorer) = <<>>) =>
        LET o == scorer[1].outcome IN
        /\ ~o.raised
        /\ DOMAIN o.val = {"topic", "error", "total_score"}
        /\ o.val.error = "No YouTube data found"
        /\ o.val.total_score = 0
        /\ o.web = 0

\* the video search failed (an empty list) while the web search would have
\* answered with a null result list: the call returned all the same
C20_Witness ==
    /\ scorer # <<>>
    /\ ~scorer[1].vresp.ok
    /\ scorer[1].wresp.kind = "null"
    /\ ~scorer[1].outcome.raised
    /\ scorer[1].outcome.val.total_score = 0

\* the trace of a wrapped call that made k invocations: invocations and
\* sleeps of the fixed delay alternate, k - 1 sleeps, the last event is
\* an invocation
AlternatingTrace(k) ==
    LET tr == retry.trace IN
    /\ Count(tr, "invoke") = k
    /\ Count(tr, "sleep") = k - 1
    /\ Len(tr) = 2 * k - 1
    /\ \A i \in 1..Len(tr) :
         IF i % 2 = 1 THEN tr[i].ev = "invoke"
         ELSE tr[i].ev = "sleep" /\ tr[i].seconds = retry.delay

\* C24: with max_retries = n >= 1, if the function first succeeds on
\* attempt k <= n, the wrapper returns that attempt's result, the function
\* has been invoked exactly k times and is never invoked again after the
\* success, exactly k - 1 sleeps of the fixed delay occurred (the same
\* delay before every retry), and no exception reaches the caller.
C24_RetrySuccessOnAttemptK ==
    /\ [](retry.pc = "returned" /\ retry.max_retries >= 1 =>
            LET k == retry.outcome.invocation IN
            /\ 1 <= k /\ k <= retry.max_retries
            /\ AlternatingTrace(k)
            /\ retry.outcome.kind = "returned"
            /\ retry.outcome.value = OpResult
            /\ retry.outcome.exception = NoException)
    /\ [][retry.pc = "returned" => retry' = NoRetry]_retry

\* the function failed twice and succeeded at the third and last attempt
C24_Witness ==
    /\ retry.pc = "returned"
    /\ retry.max_retries = 3
    /\ retry.outcome.invocation = 3
    /\ Len(retry.trace) = 5
    /\ retry.last_exception = OpError(2)

\* the wrapper was entered with max_retries <= 0
NoAttemptAllowed == retry.pc # "idle" /\ retry.max_retries <= 0

\* C29: with max_retries = 0 (or negative) the wrapped function is invoked
\* zero times and the wrapper still ends by raising, an error that is not
\* an exception of the function, instead of returning a result; no sleep
\* occurs.
C29_ZeroRetriesRaises ==
    /\ [](NoAttemptAllowed =>
            /\ retry.trace = <<>>
            /\ retry.pc # "returned"
            /\ retry.pc = "raised" =>
                 /\ retry.outcome.kind = "raised"
                 /\ retry.outcome.exception = RaiseNoneError
                 /\ \A k \in 1..MaxRetries + 1 : retry.outcome.exception # OpError(k))
    /\ NoAttemptAllowed ~> (retry.pc = "raised")

\* a call with max_retries = 0 has raised without invoking the function
C29_Witness ==
    /\ retry.pc = "raised"
    /\ retry.max_retries = 0
    /\ retry.trace = <<>>
    /\ retry.outcome.exception.type = "TypeError"

\* the step function of the competition score
CompetitionStep(top_views) ==
    IF top_views > 10000000 THEN 20
    ELSE IF top_views > 5000000 THEN 40
    ELSE IF top_views > 1000000 THEN 60
    ELSE IF top_views > 500000 THEN 80
    ELSE 100

\* C25: competition_score is a monotone non-increasing step function of
\* top_views, the maximum view count, with strict thresholds (20 above
\* 10,000,000, 40 above 5,000,000, 60 above 1,000,000, 80 above 500,000,
\* else 100); a top_views exactly on a threshold gets the score of the
\* bucket below it: exactly 10,000,000 gives 40, exactly 500,000 gives 100.
C25_CompetitionScoreMonotone ==
    [][Scored(scorer') =>
         LET top == MaxViews(Videos(scorer'))
             c == Breakdown(scorer').competition_score
         IN /\ \A i \in 1..Len(Videos(scorer')) : Videos(scorer')[i].views <= top
            /\ \E i \in 1..Len(Videos(scorer')) : Videos(scorer')[i].views = top
            /\ c = CompetitionStep(top)
            /\ top = 10000000 => c = 40
            /\ top = 500000 => c = 100
            /\ (Scored(scorer) /\ MaxViews(Videos(scorer)) <= top)
                  => Breakdown(scorer).competition_score >= c
            /\ (Scored(scorer) /\ top <= MaxViews(Videos(scorer)))
                  => c >= Breakdown(scorer).competition_score
      ]_vars

\* a list whose most viewed video has exactly 10,000,000 views was scored 40
C25_Witness ==
    /\ Scored(scorer)
    /\ MaxViews(Videos(scorer)) = 10000000
    /\ Breakdown(scorer).competition_score = 40

\* the videos of a list that were viewed
Viewed(v) == v.views > 0
ViewedVideos(vs) == SelectSeq(vs, Viewed)

\* the engagement average: likes / views * 100 over the viewed videos,
\* divided by the number of all videos; as a bucket
EngagementStep(vs) ==
    LET total == SumEngagement(ViewedVideos(vs))
        n == Len(vs)
    IN IF total.num > 3 * n * total.den THEN 100
       ELSE IF total.num > 2 * n * total.den THEN 80
       ELSE IF 2 * total.num > 3 * n * total.den THEN 60
       ELSE IF total.num > n * total.den THEN 40
       ELSE 20

\* the web search gave the scorer a result list
WebAnswered(sc) == ~search_web(sc[1].wresp).isNone

\* C26: for every non-empty video list, also when some or all videos have
\* views = 0, score_topic divides by no zero: a video with views = 0 adds
\* 0 to the engagement average and still counts in its denominator, and a
\* list in which every video has views = 0 gets engagement_score 20,
\* demand_score 20 and competition_score 100.
C26_UnviewedVideosScoreZero ==
    (scorer # <<>> /\ Videos(scorer) # <<>> /\ WebAnswered(scorer)) =>
        /\ Scored(scorer)
        /\ Breakdown(scorer).engagement_score = EngagementStep(Videos(scorer))
        /\ ViewedVideos(Videos(scorer)) = <<>> =>
             /\ Breakdown(scorer).engagement_score = 20
             /\ Breakdown(scorer).demand_score = 20
             /\ Breakdown(scorer).competition_score = 100

\* a video with likes and no views has been scored
C26_Witness ==
    /\ Scored(scorer)
    /\ Videos(scorer) = <<Video(0, 7)>>
    /\ Breakdown(scorer).engagement_score = 20

\* C27: for every non-empty video list and every search-result count the
\* scored total_score is an integer between 24 and 81 inclusive: since
\* top_views >= avg_views, a demand_score of 100, 80 or 60 forces the
\* competition_score to be at most 40, 60 or 80, so demand = competition =
\* 100 and any total above 81 are unreachable, and rounding to one decimal
\* never changes the value.
C27_TotalScoreRange ==
    Scored(scorer) =>
        LET b == Breakdown(scorer)
            total == scorer[1].outcome.val.total_score
        IN /\ total % 10 = 0
           /\ 240 <= total /\ total <= 810
           /\ 10 * total = Weighted(b)
           /\ MaxViews(Videos(scorer)) * Len(Videos(scorer)) >= SumViews(Videos(scorer))
           /\ b.demand_score = 100 => b.competition_score <= 40
           /\ b.demand_score = 80 => b.competition_score <= 60
           /\ b.demand_score = 60 => b.competition_score <= 80
           /\ ~(b.demand_score = 100 /\ b.competition_score = 100)

\* a topic has been scored 81, the highest total
C27_Witness ==
    /\ Scored(scorer)
    /\ scorer[1].outcome.val.total_score = 810
    /\ Breakdown(scorer).demand_score = 100
    /\ Breakdown(scorer).competition_score = 40

\* the sessions of the history that are the live session
LiveEntries(t) == {i \in 1..Len(t.history) : t.history[i].live}

\* save_session has been called on the tracker
Saved(t) == Len(t.history) > Len(t.loaded)

\* C30: save_session is idempotent with respect to the persisted history:
\* after one or several save_session calls in the same session, with or
\* without log_operation calls in between, the history written to storage
\* holds the live session exactly once, and the sessions loaded at
\* construction are unchanged.
C30_SaveSessionIdempotent ==
    /\ SubSeq(tracker.history, 1, Len(tracker.loaded)) = tracker.loaded
    /\ Saved(tracker) => Cardinality(LiveEntries(tracker)) = 1

\* ---- C23 ----------------------------------------------------------------
\* the collaborators constructed so far are the first ones of the order
ConstructedPrefix ==
    /\ Len(ctor.constructed) <= Len(ConstructionOrder)
    /\ \A i \in 1..Len(ctor.constructed) : ctor.constructed[i] = ConstructionOrder[i]

\* the collaborator whose construction failed: the next one of the order
FailedCollaborator == ConstructionOrder[Len(ctor.constructed) + 1]

InitFailed == ctor.pc \in {"except", "raised"} /\ ctor.constructed # ConstructionOrder

\* C23: when a collaborator fails to construct, the failure reaches the
\* caller of the constructor as an exception carrying the collaborator's
\* error; no orchestrator instance exists and no package is ever produced;
\* the collaborators after the failed one in the construction order
\* (YouTubeAnalyzer, ResearchAgent, TopicScorer, ScriptWriter, SEOAgent) are
\* not constructed, and the constructor does not go on after the failure.
C23_ConstructionFailurePropagates ==
    /\ [](/\ ConstructedPrefix
          /\ ctor.pc = "except" =>
               /\ Len(ctor.constructed) < Len(ConstructionOrder)
               /\ ctor.error \in
                    Outcomes(FailedCollaborator, ctor.youtube_key) \ {"ok"}
               /\ ~ctor.instance
          /\ ctor.pc = "raised" => ~ctor.instance /\ ctor.error # ""
          /\ ~ctor.instance => pc = "idle" /\ package = <<>> /\ calls = <<>>
          /\ ctor.instance => ctor.constructed = ConstructionOrder /\ ctor.error = "")
    /\ [][/\ ctor.pc = "except" =>
               ctor' = [ctor EXCEPT !.pc = "raised"]
          /\ ctor.pc = "raised" => ctor' = ctor]_ctor

\* the YouTube key is missing: the first collaborator raises, nothing else
\* is constructed and the caller gets the ValueError
C23_Witness ==
    /\ ctor.pc = "raised"
    /\ ~ctor.youtube_key
    /\ ctor.error = MissingKeyMsg
    /\ ctor.constructed = <<>>
    /\ ~ctor.instance
    /\ package = <<>>

\* the failure of a later collaborator leaves the earlier ones constructed
C23_WitnessLater ==
    /\ ctor.pc = "raised"
    /\ ctor.constructed = <<"YouTubeAnalyzer", "ResearchAgent">>
    /\ ctor.error = "TavilyClient failed"

\* ---- C28 ----------------------------------------------------------------
\* the scorer of a single-script run answered without scoring: the video
\* search had no videos
NoVideosScored ==
    /\ mode = "single"
    /\ "score" \in DOMAIN package
    /\ "error" \in DOMAIN package["score"]

\* C28: in create_content_package, when the video search yields no videos,
\* the run ends Failed right after scoring: the package has the score with
\* total_score 0 and an error field, none of youtube_analysis, research,
\* gaps, script, seo; only the scorer was invoked (no web search, no text
\* generation), and no cost operation was logged for the run.
C28_NoVideosFailsAfterScoring ==
    NoVideosScored =>
      /\ pc = "Failed"
      /\ failure.step = 1
      /\ package["score"] = NoDataScore(args.topic)
      /\ package["score"].total_score = 0
      /\ "error" \in DOMAIN package /\ package["error"] # ""
      /\ DOMAIN package \cap
           {"youtube_analysis", "research", "gaps", "script", "seo"} = {}
      /\ Len(calls) = 1 /\ calls[1].op = "score_topic"
      /\ remote.web = 0 /\ remote.llm = 0
      /\ ledger = ledger0

\* a run with cost tracking on failed after scoring on an empty video list
C28_Witness ==
    /\ NoVideosScored
    /\ pc = "Failed"
    /\ ledger.enabled
    /\ package["error"] = KeyErrorMsg
    /\ package["score"].total_score = 0

\* ---- C21 ----------------------------------------------------------------
\* the collaborator calls of a variation run, in order
VariationOps(include_seo) ==
    <<"score_topic", "analyze_top_videos", "research_topic", "analyze_content_gaps",
      "write_multiple_variations", "write_script", "write_script", "write_script",
      "_compare_script_variations">>
    \o (IF include_seo THEN <<"optimize_metadata">> ELSE <<>>)

\* the calls of the first four steps of a single-script run
FirstFourOps ==
    <<"score_topic", "analyze_top_videos", "research_topic", "analyze_content_gaps">>

\* the calls of the tones follow the four steps and write_multiple_variations
FirstToneCall == Len(FirstFourOps) + 2

SEOCalls == {i \in 1..Len(calls) : calls[i].op = "optimize_metadata"}

SeoEntries ==
    {i \in (Len(ledger0.operations) + 1)..Len(ledger.operations) :
        ledger.operations[i].type = "seo"}

\* the script step made its calls and every generation of a script worked
ScriptStepSucceeded == ScriptCalls # {} /\ ~ScriptGenerationFailed

\* the script of the run: the script field, or the entertaining variant
RunScript ==
    IF mode = "single" THEN package["script"] ELSE package["scripts"]["entertaining"]

\* without include_seo: no SEO call, no 'seo' cost operation, a run whose
\* script step succeeded is Complete with seo null and no error field
SeoSkipped ==
    /\ SEOCalls = {}
    /\ SeoEntries = {}
    /\ "seo" \in DOMAIN package => package["seo"] = None
    /\ ScriptStepSucceeded =>
         /\ pc = "Complete"
         /\ "seo" \in DOMAIN package
         /\ "error" \notin DOMAIN package

\* with include_seo: at most one SEO call, one in a complete run, made with
\* the script, youtube_analysis and research of the run
SeoGivenRunValues ==
    /\ Cardinality(SEOCalls) <= 1
    /\ pc = "Complete" => Cardinality(SEOCalls) = 1
    /\ \A i \in SEOCalls :
         /\ \A j \in ScriptCalls : j < i
         /\ ScriptCalls # {}
         /\ calls[i].script = RunScript
         /\ calls[i].youtube_analysis = package["youtube_analysis"]
         /\ calls[i].research_data = package["research"]

\* the SEO step is only run after a script step that succeeded
SeoOnlyAfterScriptSucceeded == SEOCalls # {} => ScriptStepSucceeded

\* C22: without include_seo, in both pipeline shapes, the SEO collaborator
\* is never invoked, no 'seo' cost operation is logged, the seo field is
\* present and null and the run ends Complete with no error field once the
\* script step succeeded; with include_seo the SEO step is invoked exactly
\* once, only after the script step succeeded, and is given the script,
\* youtube_analysis and research of the run.
C22_SeoOptional ==
    mode \in {"single", "variations"} =>
      /\ ~args.include_seo => SeoSkipped
      /\ args.include_seo => SeoGivenRunValues /\ SeoOnlyAfterScriptSucceeded

====
